---------------------------- MODULE Spec2Model ----------------------------
(***************************************************************************)
(* Model of the retrieval and article-resolution core of MyzamAI:          *)
(*   LawRetriever (src/core/law_retriever.py),                             *)
(*   LegalBotOrchestrator.get_article_by_number and its cleaning helpers   *)
(*   (src/src/bot/main.py),                                                *)
(*   FAISSIndexBuilder.load_legal_documents, build_and_save and save_index *)
(*   (src/scripts/build_faiss_index.py).                                   *)
(*                                                                         *)
(* A text is a sequence of characters, each character a one-element string *)
(* token.  The Cyrillic word of the article marker is written with the     *)
(* Latin tokens "S","t","a","t","j","a" (upper-case first letter, as in    *)
(* the source), other letters with lower-case Latin tokens.  "\n" is the   *)
(* newline, "*" stands for the bullet character.                           *)
(***************************************************************************)
EXTENDS Integers, Sequences, FiniteSets, TLC

VARIABLES
    corpusChunks,   \* load_legal_documents of the corpus file: the builder's chunks
    indexFile,      \* faiss_index.bin on disk: None or Some(record)
    chunksFile,     \* chunks.pkl on disk: None or Some(unit array)
    builderPc,      \* position of the index builder inside save_index
    model,          \* LawRetriever.model
    index,          \* LawRetriever.index
    chunks,         \* LawRetriever.chunks
    last,           \* the call that has just finished and what it gave its caller
    handlers        \* the request handlers in flight: what each has read so far

vars ==
    <<corpusChunks, indexFile, chunksFile, builderPc, model, index, chunks, last, handlers>>

-----------------------------------------------------------------------------
(* Optional values: Python's None and a present value.                     *)

None == <<>>

Some(v) == <<v>>

IsNone(o) == o = <<>>

Get(o) == o[1]

-----------------------------------------------------------------------------
(* Characters and strings.                                                 *)

Digits == {"0", "1", "2", "3", "4", "5", "6", "7", "8", "9"}

Whitespace == {" ", "\n"}

isdigit(c) == c \in Digits

isspace(c) == c \in Whitespace

DigitChar(d) ==
    CASE d = 0 -> "0" [] d = 1 -> "1" [] d = 2 -> "2" [] d = 3 -> "3" [] d = 4 -> "4"
      [] d = 5 -> "5" [] d = 6 -> "6" [] d = 7 -> "7" [] d = 8 -> "8" [] d = 9 -> "9"

RECURSIVE DecStr(_)
\* str(article_num) inside the f-string, for article_num >= 0
DecStr(n) == IF n < 10 THEN <<DigitChar(n)>> ELSE DecStr(n \div 10) \o <<DigitChar(n % 10)>>

\* str.lower on one character, for the upper-case letters in use
lower(c) ==
    CASE c = "S" -> "s" [] c = "G" -> "g" [] c = "P" -> "p" [] c = "R" -> "r"
      [] c = "I" -> "i" [] c = "O" -> "o" [] c = "D" -> "d" [] OTHER -> c

LowerStr(s) == [i \in 1..Len(s) |-> lower(s[i])]

RECURSIVE lstrip(_)
lstrip(s) == IF s # <<>> /\ isspace(Head(s)) THEN lstrip(Tail(s)) ELSE s

RECURSIVE rstrip(_)
rstrip(s) == IF s # <<>> /\ isspace(s[Len(s)]) THEN rstrip(SubSeq(s, 1, Len(s) - 1)) ELSE s

strip(s) == rstrip(lstrip(s))

startswith(s, p) == Len(s) >= Len(p) /\ SubSeq(s, 1, Len(p)) = p

\* Python's "sub in s" on strings
Contains(s, sub) ==
    \E i \in 0..(Len(s) - Len(sub)) : \A j \in 1..Len(sub) : s[i + j] = sub[j]

RECURSIVE Join(_, _)
\* sep.join(parts)
Join(parts, sep) ==
    IF parts = <<>> THEN <<>>
    ELSE IF Len(parts) = 1 THEN parts[1]
    ELSE parts[1] \o sep \o Join(Tail(parts), sep)

RECURSIVE SplitOn(_, _)
\* text.split(c) for a one-character separator: always at least one piece
SplitOn(s, c) ==
    IF \A i \in 1..Len(s) : s[i] # c THEN <<s>>
    ELSE LET k == CHOOSE i \in 1..Len(s) : s[i] = c /\ \A j \in 1..(i - 1) : s[j] # c
         IN  <<SubSeq(s, 1, k - 1)>> \o SplitOn(SubSeq(s, k + 1, Len(s)), c)

RECURSIVE SplitWords(_)
\* query.split(): pieces between runs of whitespace, no empty piece
SplitWords(s) ==
    LET t == lstrip(s)
    IN  IF t = <<>> THEN <<>>
        ELSE IF \A i \in 1..Len(t) : ~isspace(t[i]) THEN <<t>>
        ELSE LET k == CHOOSE i \in 1..Len(t) : isspace(t[i]) /\ \A j \in 1..(i - 1) : ~isspace(t[j])
             IN  <<SubSeq(t, 1, k - 1)>> \o SplitWords(SubSeq(t, k + 1, Len(t)))

-----------------------------------------------------------------------------
(* LegalBotOrchestrator._clean_article_text and _combine_article_parts.    *)

\* length above which a kept sentence counts as a substring duplicate
DupMinLen == 20

\* re.sub(r'=+', '', text)
RemoveSeparators(text) == SelectSeq(text, LAMBDA c : c # "=")

RECURSIVE CollapseWhitespace(_)
\* re.sub(r'\s+', ' ', text)
CollapseWhitespace(text) ==
    IF text = <<>> THEN <<>>
    ELSE IF isspace(Head(text)) THEN <<" ">> \o CollapseWhitespace(lstrip(text))
    ELSE <<Head(text)>> \o CollapseWhitespace(Tail(text))

RECURSIVE RemoveBulletsFrom(_, _)
\* re.sub(r'^•\s*', '', text, flags=re.MULTILINE), scanning from position i:
\* a bullet at the start of a line is dropped with the whitespace after it
RemoveBulletsFrom(text, i) ==
    IF i > Len(text) THEN <<>>
    ELSE IF (i = 1 \/ text[i - 1] = "\n") /\ text[i] = "*"
         THEN LET rest == {j \in (i + 1)..Len(text) : ~isspace(text[j])}
                  nxt == IF rest = {} THEN Len(text) + 1
                         ELSE CHOOSE j \in rest : \A m \in rest : j <= m
              IN  RemoveBulletsFrom(text, nxt)
         ELSE <<text[i]>> \o RemoveBulletsFrom(text, i + 1)

RemoveBullets(text) == RemoveBulletsFrom(text, 1)

\* the is_duplicate test with its first half alone, a sentence being compared
\* with the kept sentences that contain it and not with those it contains:
\* the variant the kept sentences of C28 must tell apart
IsDuplicateOfLonger(line, seen_content) ==
    \E seen \in seen_content : Len(line) > DupMinLen /\ Contains(seen, line)

\* the is_duplicate test of one stripped sentence against the kept ones
IsDuplicate(line, seen_content) ==
    \E seen \in seen_content :
        \/ Len(line) > DupMinLen /\ Contains(seen, line)
        \/ Len(seen) > DupMinLen /\ Contains(line, seen)

RECURSIVE UniqueLines(_, _)
\* the loop over text.split('.'): unique_lines after visiting all of lines,
\* seen_content being the set of the lines kept so far
UniqueLines(lines, unique_lines) ==
    IF lines = <<>> THEN unique_lines
    ELSE LET line == strip(Head(lines))
             seen_content == {unique_lines[i] : i \in 1..Len(unique_lines)}
             keep == line # <<>> /\ line \notin seen_content
                     /\ ~IsDuplicate(line, seen_content)
         IN  UniqueLines(Tail(lines), IF keep THEN Append(unique_lines, line) ELSE unique_lines)

_clean_article_text(text) ==
    LET t1 == RemoveSeparators(text)
        t2 == CollapseWhitespace(t1)
        t3 == RemoveBullets(t2)
        unique_lines == UniqueLines(SplitOn(t3, "."), <<>>)
    IN  strip(Join(unique_lines, <<".", " ">>))

\* _combine_article_parts that hands back the first part as it is stored: the
\* variant the round trip of C3 must tell apart from the code
CombineUncleaned(parts) ==
    IF parts = <<>> THEN <<>> ELSE parts[1]

\* _combine_article_parts that keeps the last part instead of the first: the
\* variant the precedence of C21 must tell apart
CombineLastPart(parts) ==
    IF parts = <<>> THEN <<>> ELSE _clean_article_text(parts[Len(parts)])

_combine_article_parts(parts) ==
    IF parts = <<>> THEN <<>> ELSE _clean_article_text(parts[1])

-----------------------------------------------------------------------------
(* LawRetriever: load and search.                                          *)

NoException == "NoException"

\* the retriever's fields as one value
Retriever == [model |-> model, index |-> index, chunks |-> chunks]

\* LawRetriever.__init__: nothing loaded
FreshRetriever == [model |-> None, index |-> None, chunks |-> None]

ModelName == "all-MiniLM-L6-v2"

\* the FileNotFoundError of load: "FAISS index not found ... Please run
\* build_faiss_index.py first."
NotBuilt == "FileNotFoundError: index not built"

\* the FileNotFoundError of open(chunks_path, 'rb')
NoChunksFile == "FileNotFoundError: chunks file"

\* load from faiss.read_index on: self.index is assigned before the chunks
\* file is opened
ReadFiles(st) ==
    IF IsNone(chunksFile)
    THEN [exc |-> NoChunksFile, model |-> Some(ModelName),
          index |-> Some(Get(indexFile)), chunks |-> st.chunks]
    ELSE [exc |-> NoException, model |-> Some(ModelName),
          index |-> Some(Get(indexFile)), chunks |-> Some(Get(chunksFile).chunks)]

\* load without the os.path.exists test: faiss.read_index meets the absent
\* file itself.  The variant the "not built" error of C9 must tell apart.
LoadWithoutExistsTest(st) ==
    IF IsNone(indexFile)
    THEN [exc |-> "RuntimeError: could not open index file", model |-> Some(ModelName),
          index |-> st.index, chunks |-> st.chunks]
    ELSE ReadFiles(st)

\* LawRetriever.load on retriever st: the exception it ends with and the fields after it
load(st) ==
    IF IsNone(indexFile)
    THEN [exc |-> NotBuilt, model |-> Some(ModelName),
          index |-> st.index, chunks |-> st.chunks]
    ELSE ReadFiles(st)

\* only words longer than this many characters are query words
MinWordLen == 3

\* results accepted whatever their lexical overlap
MinKeep == 2

\* over-fetch factor of the k-NN search
OverFetch == 2

\* query_words: the lower-cased words of the query longer than MinWordLen
QueryWords(query) ==
    LET words == SplitWords(query)
        long == SelectSeq(words, LAMBDA w : Len(w) > MinWordLen)
    IN  [i \in 1..Len(long) |-> LowerStr(long[i])]

\* index.search(query_vector, k): the k nearest ordinals by ascending distance.
\* order is the ascending-distance order of the index's ordinals for the
\* query (the embedding is a black box); the distance of the j-th nearest is
\* abstracted to its rank j - 1.  When the index holds fewer than k vectors
\* the answer is padded with ordinal -1 at a distance beyond every real one.
KnnSearch(ntotal, order, k) ==
    [j \in 1..k |-> IF j <= ntotal THEN [idx |-> order[j] - 1, distance |-> j - 1]
                    ELSE [idx |-> -1, distance |-> k]]

\* the distance handed on as the score, without the conversion: the variant
\* the ordering of C11 must tell apart
DistanceAsScore(distance) == [num |-> distance, den |-> 1]

\* similarity = 1 / (1 + distance), as a fraction
Similarity(distance) == [num |-> 1, den |-> 1 + distance]

\* self.chunks[idx] does not raise IndexError
InRange(chs, idx) == -Len(chs) <= idx /\ idx < Len(chs)

\* self.chunks[idx], Python indexing: a negative idx counts from the end
PyIndex(chs, idx) == IF idx >= 0 THEN chs[idx + 1] ELSE chs[Len(chs) + idx + 1]

RelevanceScore(query_words, chunk) ==
    Cardinality({i \in 1..Len(query_words) : Contains(LowerStr(chunk), query_words[i])})

\* acceptance by lexical overlap alone, without the places kept for the
\* nearest candidates: the variant C12 must tell apart
AcceptsLexicalOnly(query_words, chunk, results) ==
    RelevanceScore(query_words, chunk) > 0

\* a loop that takes every candidate, without the lexical test: the variant
\* the late results of C19 must tell apart
AcceptsEveryCandidate(query_words, chunk, results) == TRUE

\* "if relevance_score > 0 or len(results) < 2"
Accepts(query_words, chunk, results) ==
    RelevanceScore(query_words, chunk) > 0 \/ Len(results) < MinKeep

RECURSIVE FilterLoop(_, _, _, _, _, _)
\* the filtering loop of search from candidate i on, results so far
FilterLoop(cands, i, results, chs, query_words, top_k) ==
    IF i > Len(cands) THEN [exc |-> NoException, results |-> results]
    ELSE LET c == cands[i]
         IN  IF c.idx < Len(chs)
             THEN IF ~InRange(chs, c.idx)
                  THEN [exc |-> "IndexError", results |-> results]
                  ELSE LET chunk == PyIndex(chs, c.idx)
                           accept == Accepts(query_words, chunk, results)
                           r2 == IF accept
                                 THEN Append(results, [chunk |-> chunk,
                                                       similarity |-> Similarity(c.distance)])
                                 ELSE results
                       IN  IF Len(r2) >= top_k
                           THEN [exc |-> NoException, results |-> r2]
                           ELSE FilterLoop(cands, i + 1, r2, chs, query_words, top_k)
             ELSE FilterLoop(cands, i + 1, results, chs, query_words, top_k)

RECURSIVE FallbackLoop(_, _, _, _)
\* the loop taken when no result passed the filter, from candidate i on
FallbackLoop(cands, i, results, chs) ==
    IF i > Len(cands) THEN [exc |-> NoException, results |-> results]
    ELSE LET c == cands[i]
         IN  IF c.idx < Len(chs)
             THEN IF ~InRange(chs, c.idx)
                  THEN [exc |-> "IndexError", results |-> results]
                  ELSE FallbackLoop(cands, i + 1,
                                    Append(results, [chunk |-> PyIndex(chs, c.idx),
                                                     similarity |-> Similarity(c.distance)]),
                                    chs)
             ELSE FallbackLoop(cands, i + 1, results, chs)

\* results[:n - 1]: the cut one place short, the variant the lower bound of
\* C10 must tell apart
TakeOneLess(seq, n) == SubSeq(seq, 1, IF n - 1 < Len(seq) THEN n - 1 ELSE Len(seq))

\* results[:n]
Take(seq, n) == SubSeq(seq, 1, IF n < Len(seq) THEN n ELSE Len(seq))

\* the value of F at v, v being evaluated once
Bind(v, F(_)) == CHOOSE r \in {F(x) : x \in {v}} : TRUE

\* self.load() without the test before it, every call reading the files
\* again: the variant the calls of C18 must tell apart
LoadAlways(st, needLoad) ==
    Bind(load(st), LAMBDA l : [exc |-> l.exc, load |-> l.exc, model |-> l.model,
                               index |-> l.index, chunks |-> l.chunks])

\* "if ... is None: self.load()": load tells what the load did, if it ran
LazyLoad(st, needLoad) ==
    IF needLoad
    THEN Bind(load(st), LAMBDA l : [exc |-> l.exc, load |-> l.exc, model |-> l.model,
                                    index |-> l.index, chunks |-> l.chunks])
    ELSE [exc |-> NoException, load |-> "not attempted", model |-> st.model,
          index |-> st.index, chunks |-> st.chunks]

\* what search ends with: an exception or the results, and the fields after it
SearchOut(st1, exc, results) ==
    [exc |-> exc, results |-> results, load |-> st1.load,
     model |-> st1.model, index |-> st1.index, chunks |-> st1.chunks]

\* lines 77-108 of search: k-NN, filtering loop, fallback loop, cut to top_k
SearchResults(chs, cands, query_words, top_k) ==
    Bind(FilterLoop(cands, 1, <<>>, chs, query_words, top_k),
         LAMBDA f : IF f.exc # NoException THEN f
                    ELSE IF f.results = <<>>
                    THEN Bind(FallbackLoop(Take(cands, MinKeep), 1, <<>>, chs),
                              LAMBDA g : [exc |-> g.exc, results |-> Take(g.results, top_k)])
                    ELSE [exc |-> NoException, results |-> Take(f.results, top_k)])

\* search once the lazy load has run
SearchLoaded(st1, query, top_k, order, encodeFails) ==
    IF st1.exc # NoException THEN SearchOut(st1, st1.exc, <<>>)
    ELSE IF encodeFails THEN SearchOut(st1, "EmbeddingError", <<>>)
    ELSE Bind(SearchResults(Get(st1.chunks),
                            <<>> \o KnnSearch(Get(st1.index).ntotal, order, top_k * OverFetch),
                            QueryWords(query), top_k),
              LAMBDA g : IF g.exc # NoException THEN SearchOut(st1, g.exc, <<>>)
                         ELSE SearchOut(st1, NoException, g.results))

\* LawRetriever.search(query, top_k) on retriever st.  order is the k-NN order
\* of the ordinals for this query, encodeFails whether model.encode raises.
search(st, query, top_k, order, encodeFails) ==
    Bind(LazyLoad(st, IsNone(st.index) \/ IsNone(st.chunks)),
         LAMBDA st1 : SearchLoaded(st1, query, top_k, order, encodeFails))

-----------------------------------------------------------------------------
(* LegalBotOrchestrator.get_article_by_number.                             *)

\* the marker word of an article
Statya == <<"S", "t", "a", "t", "j", "a">>

\* f"Статья {article_num}"
Pattern(article_num) == Statya \o <<" ">> \o DecStr(article_num)

\* the guard without its test of the next character, as it was before the
\* fix of the 37/379 collision: the variant C1 must tell apart
StartsWithPattern(chunk_clean, article_num) ==
    startswith(chunk_clean, Pattern(article_num))

\* the exact-prefix guard on a stripped chunk: it starts with the pattern and
\* the character after the pattern, if any, is not a digit
PassesGuard(chunk_clean, article_num) ==
    LET pattern == Pattern(article_num)
    IN  /\ startswith(chunk_clean, pattern)
        /\ Len(chunk_clean) > Len(pattern) => ~isdigit(chunk_clean[Len(pattern) + 1])

\* chunk_clean = chunk.strip()
ChunkClean(chunk) == strip(chunk)

RECURSIVE ExactScan(_, _)
\* article_parts: the stripped chunks that pass the guard, in array order
ExactScan(chs, article_num) ==
    IF chs = <<>> THEN <<>>
    ELSE LET chunk_clean == ChunkClean(Head(chs))
         IN  (IF PassesGuard(chunk_clean, article_num) THEN <<chunk_clean>> ELSE <<>>)
             \o ExactScan(Tail(chs), article_num)

\* a final validation that applies the whole guard to the cleaned article,
\* the test of the next character included: the variant the equivalence of
\* C30 must tell apart
ValidatesByGuard(full_article, article_num) == PassesGuard(strip(full_article), article_num)

\* the final validation of the combined article
Validates(full_article, article_num) == startswith(strip(full_article), Pattern(article_num))

\* top_k of the fallback search
FallbackTopK == 20

\* the loop over the fallback results without the guard: the nearest result
\* is taken.  The variant the absence of C6 must tell apart.
FirstResult(results, article_num) ==
    IF results = <<>> THEN None ELSE Some(ChunkClean(Head(results).chunk))

RECURSIVE FirstPassing(_, _)
\* the loop over the fallback results: the first stripped chunk that passes
FirstPassing(results, article_num) ==
    IF results = <<>> THEN None
    ELSE LET chunk_clean == ChunkClean(Head(results).chunk)
         IN  IF PassesGuard(chunk_clean, article_num) THEN Some(chunk_clean)
             ELSE FirstPassing(Tail(results), article_num)

\* an except clause for FileNotFoundError alone: every other exception leaves
\* the function.  The variant C7 must tell apart.
ExceptFileNotFound(r) ==
    IF r.exc \in {NotBuilt, NoChunksFile}
    THEN [r EXCEPT !.raised = FALSE, !.value = None, !.unit = None]
    ELSE r

\* the except clause of get_article_by_number: every exception becomes None
ExceptException(r) ==
    IF r.exc # NoException THEN [r EXCEPT !.raised = FALSE, !.value = None, !.unit = None]
    ELSE r

\* what the try block ends with: raised tells whether an exception leaves it,
\* value is the returned Optional[str], unit the stripped chunk the value was
\* made from, searched whether retriever.search was called
TryOut(st1, exc, value, unit, searched) ==
    [raised |-> exc # NoException, exc |-> exc, value |-> value, unit |-> unit,
     searched |-> searched, load |-> st1.load,
     model |-> st1.model, index |-> st1.index, chunks |-> st1.chunks]

\* lines 247-255: combine the collected parts and validate the result
CombineAndValidate(st1, article_parts, article_num) ==
    Bind(_combine_article_parts(article_parts),
         LAMBDA full_article :
            IF Validates(full_article, article_num)
            THEN TryOut(st1, NoException, Some(full_article), Some(article_parts[1]), FALSE)
            ELSE TryOut(st1, NoException, None, None, FALSE))

\* lines 257-275: the fallback search and the scan of its results
FallbackSearch(st1, article_num, order, encodeFails) ==
    Bind(search([model |-> st1.model, index |-> st1.index, chunks |-> st1.chunks],
                Pattern(article_num), FallbackTopK, order, encodeFails),
         LAMBDA s :
            IF s.exc # NoException THEN TryOut(st1, s.exc, None, None, TRUE)
            ELSE Bind(FirstPassing(s.results, article_num),
                      LAMBDA hit : TryOut(st1, NoException, hit, hit, TRUE)))

\* the try block once the lazy load has run
TryLoaded(st1, article_num, order, encodeFails) ==
    IF st1.exc # NoException THEN TryOut(st1, st1.exc, None, None, FALSE)
    ELSE Bind(ExactScan(Get(st1.chunks), article_num),
              LAMBDA article_parts :
                 IF article_parts # <<>>
                 THEN CombineAndValidate(st1, article_parts, article_num)
                 ELSE FallbackSearch(st1, article_num, order, encodeFails))

\* a try block that gives up after a lazy load instead of scanning what it
\* loaded: the variant the repeated call of C5 must tell apart
TryBodyLoadOnly(st, article_num, order, encodeFails) ==
    Bind(LazyLoad(st, IsNone(st.chunks)),
         LAMBDA st1 : IF IsNone(st.chunks) THEN TryOut(st1, st1.exc, None, None, FALSE)
                      ELSE TryLoaded(st1, article_num, order, encodeFails))

\* the body of the try block of get_article_by_number
TryBody(st, article_num, order, encodeFails) ==
    Bind(LazyLoad(st, IsNone(st.chunks)),
         LAMBDA st1 : TryLoaded(st1, article_num, order, encodeFails))

get_article_by_number(st, article_num, order, encodeFails) ==
    ExceptException(TryBody(st, article_num, order, encodeFails))

-----------------------------------------------------------------------------------------------------------------------------------------------------
(* FAISSIndexBuilder.load_legal_documents and the corpus texts.            *)

RECURSIVE GroupArticles(_, _, _)
\* the loop over text.split('\n'): a line that starts, stripped, with the
\* marker word opens a new article, every other line joins the current one
GroupArticles(lines, current_article, articles) ==
    LET flushed == IF current_article # <<>>
                   THEN Append(articles, Join(current_article, <<"\n">>))
                   ELSE articles
    IN  IF lines = <<>> THEN flushed
        ELSE IF startswith(strip(Head(lines)), Statya)
        THEN GroupArticles(Tail(lines), <<Head(lines)>>, flushed)
        ELSE GroupArticles(Tail(lines), Append(current_article, Head(lines)), articles)

\* an article is kept as a unit only if its stripped text is longer than this
MinArticleLen == 10

RECURSIVE KeepArticles(_)
\* all_chunks: the stripped articles longer than MinArticleLen
KeepArticles(articles) ==
    IF articles = <<>> THEN <<>>
    ELSE LET article == strip(Head(articles))
         IN  (IF article # <<>> /\ Len(article) > MinArticleLen THEN <<article>> ELSE <<>>)
             \o KeepArticles(Tail(articles))

\* the unit array of a corpus text
load_legal_documents(text) ==
    KeepArticles(GroupArticles(SplitOn(text, "\n"), <<>>, <<>>))

\* create_article_chunks: a fragment unit of a long article
FragmentUnit(number, chunk_text) ==
    Pattern(number) \o <<" ", "(", "c", "h", "a", "s", "t", ")", ":", " ">> \o chunk_text

\* most passages in a corpus text
MaxUnits == 2

\* " Статья 37\nx. y.\n\n==": an indented marker line, the body, and after it
\* the blank line and the line of separator characters that
\* save_articles_to_file writes after each body
P37 == <<" ">> \o Pattern(37) \o <<"\n", "x", ".", " ", "y", ".", "\n", "\n", "=", "=">>

\* "Статья 379: z."
P379 == Pattern(379) \o <<":", " ", "z", ".">>

\* "Статья 37=9. w. w.": a separator character right after the number, and a
\* sentence that occurs twice
P37Sep == Pattern(37) \o <<"=", "9", ".", " ", "w", ".", " ", "w", ".">>

\* "Статья 37 (часть): a b" and "Статья 37 (часть): c d": the two fragments of
\* one long article
P37Frag1 == FragmentUnit(37, <<"a", " ", "b">>)

P37Frag2 == FragmentUnit(37, <<"c", " ", "d">>)

\* "Glava 1": a heading line, part of the article before it or, at the start
\* of the corpus, an article of its own that is too short to keep
PHeading == <<"G", "l", "a", "v", "a", " ", "1">>

PassagePool == {P37, P379, P37Sep, P37Frag1, P37Frag2, PHeading}

\* the article numbers asked for: 37 is a proper prefix of 379, 99999 is in no unit
ArticleNumbers == {37, 379, 99999}

\* largest top_k of a direct search call
MaxTopK == 2

\* "Статья 37": the query of the fallback search, one query word
QStatya == Pattern(37)

\* "chast": a word that only the fragment units contain
QChast == <<"c", "h", "a", "s", "t">>

\* "x y": no word longer than MinWordLen characters
QShort == <<"x", " ", "y">>

\* "nnnn": a query word that no unit contains
QNowhere == <<"n", "n", "n", "n">>

Queries == {QStatya, QChast, QShort, QNowhere}

SeqsUpTo(S, n) == UNION {[1..m -> S] : m \in 0..n}

\* the corpus texts: up to MaxUnits passages, one after the other
CorpusTexts == {Join(ps, <<"\n">>) : ps \in SeqsUpTo(PassagePool, MaxUnits)}

\* the orders in which a k-NN search can rank n ordinals
Orders(n) == {o \in [1..n -> 1..n] : \A i, j \in 1..n : i # j => o[i] # o[j]}

-----------------------------------------------------------------------------
(* State machine.                                                          *)

NoCall ==
    [op |-> "none", num |-> 0, query |-> <<>>, top_k |-> 0, raised |-> FALSE,
     exc |-> NoException, value |-> None, unit |-> None, searched |-> FALSE,
     load |-> "not attempted", results |-> <<>>, knn |-> <<>>]

\* the request handlers of the bot that can be in flight together
Handlers == {"h1", "h2"}

\* a handler that is serving no request
IdleHandler ==
    [pc |-> "idle", op |-> "none", num |-> 0, query |-> <<>>, top_k |-> 0,
     encodeFails |-> FALSE, start |-> FreshRetriever, load |-> "not attempted",
     searched |-> FALSE, order |-> <<>>, cands |-> <<>>, exc |-> NoException,
     results |-> <<>>, value |-> None]

NoHandlers == [h \in Handlers |-> IdleHandler]

Init ==
    /\ corpusChunks \in {load_legal_documents(text) : text \in CorpusTexts}
    /\ indexFile = None
    /\ chunksFile = None
    /\ builderPc = "idle"
    /\ model = None
    /\ index = None
    /\ chunks = None
    /\ last = NoCall
    /\ handlers = NoHandlers

\* self.model.encode on one text: a vector that tells the texts apart
Embed(chunk) == <<"embedding", chunk>>

\* an index whose vectors are added in the reverse order of the units: the
\* variant the alignment of C23 must tell apart
EmbeddingsReversed(chs) == [i \in 1..Len(chs) |-> Embed(chs[Len(chs) + 1 - i])]

\* build_index: the vectors of the index, vector i the embedding of chunks[i]
Embeddings(chs) == [i \in 1..Len(chs) |-> Embed(chs[i])]

\* build_and_save up to the first write of save_index,
\* faiss.write_index(index, index_path).  build_index raises on an empty unit
\* list (index.add of an array without a second dimension), so save_index is
\* reached with at least one unit.
WriteIndex ==
    /\ builderPc = "idle"
    /\ corpusChunks # <<>>
    /\ indexFile' = Some([ntotal |-> Len(corpusChunks), vectors |-> Embeddings(corpusChunks)])
    /\ builderPc' = "index written"
    /\ last' = NoCall
    /\ UNCHANGED <<corpusChunks, chunksFile, model, index, chunks, handlers>>

\* save_index, second write: pickle.dump(chunks, f)
WriteChunks ==
    /\ builderPc = "index written"
    /\ chunksFile' = Some([chunks |-> corpusChunks])
    /\ builderPc' = "idle"
    /\ last' = NoCall
    /\ UNCHANGED <<corpusChunks, indexFile, model, index, chunks, handlers>>

\* a new serving process: a LawRetriever as __init__ leaves it
Restart ==
    /\ Retriever # FreshRetriever
    /\ model' = FreshRetriever.model
    /\ index' = FreshRetriever.index
    /\ chunks' = FreshRetriever.chunks
    /\ last' = NoCall
    /\ UNCHANGED <<corpusChunks, indexFile, chunksFile, builderPc, handlers>>

\* the caller has taken the result of the call; the next call can start
Return ==
    /\ last # NoCall
    /\ last' = NoCall
    /\ UNCHANGED <<corpusChunks, indexFile, chunksFile, builderPc, model, index, chunks, handlers>>

\* the k-NN orders a call can meet: one when the embedding fails before the search
CallOrders(encodeFails) ==
    IF encodeFails \/ IsNone(indexFile) THEN {<<>>} ELSE Orders(Get(indexFile).ntotal)

\* distances, indices of a search call that came back with results: the
\* answer of index.search, <<>> for a call that an exception ended
CallKnn(r, top_k, order) ==
    IF r.exc = NoException
    THEN KnnSearch(Get(r.index).ntotal, order, top_k * OverFetch)
    ELSE <<>>

\* one call of LegalBotOrchestrator.get_article_by_number
GetArticle ==
    /\ last = NoCall
    /\ \E article_num \in ArticleNumbers, encodeFails \in BOOLEAN :
         \E order \in CallOrders(encodeFails) :
           \E r \in {get_article_by_number(Retriever, article_num, order, encodeFails)} :
              /\ model' = r.model
              /\ index' = r.index
              /\ chunks' = r.chunks
              /\ last' = [op |-> "get_article_by_number", num |-> article_num,
                          query |-> <<>>, top_k |-> 0, raised |-> r.raised, exc |-> r.exc,
                          value |-> r.value, unit |-> r.unit, searched |-> r.searched,
                          load |-> r.load, results |-> <<>>, knn |-> <<>>]
              /\ UNCHANGED <<corpusChunks, indexFile, chunksFile, builderPc, handlers>>

\* one call of LawRetriever.search
Search ==
    /\ last = NoCall
    /\ \E query \in Queries, top_k \in 1..MaxTopK, encodeFails \in BOOLEAN :
         \E order \in CallOrders(encodeFails) :
           \E r \in {search(Retriever, query, top_k, order, encodeFails)} :
              /\ model' = r.model
              /\ index' = r.index
              /\ chunks' = r.chunks
              /\ last' = [op |-> "search", num |-> 0, query |-> query, top_k |-> top_k,
                          raised |-> r.exc # NoException, exc |-> r.exc, value |-> None,
                          unit |-> None, searched |-> TRUE, load |-> r.load,
                          results |-> r.results,
                          knn |-> CallKnn(r, top_k, order)]
              /\ UNCHANGED <<corpusChunks, indexFile, chunksFile, builderPc, handlers>>

\* one call of LawRetriever.load
Load ==
    /\ last = NoCall
    /\ \E r \in {load(Retriever)} :
          /\ model' = r.model
          /\ index' = r.index
          /\ chunks' = r.chunks
          /\ last' = [op |-> "load", num |-> 0, query |-> <<>>, top_k |-> 0,
                      raised |-> r.exc # NoException, exc |-> r.exc, value |-> None,
                      unit |-> None, searched |-> FALSE, load |-> r.exc,
                      results |-> <<>>, knn |-> <<>>]
          /\ UNCHANGED <<corpusChunks, indexFile, chunksFile, builderPc, handlers>>

Next ==
    GetArticle \/ Search \/ Load \/ WriteIndex \/ WriteChunks \/ Restart \/ Return

Spec == Init /\ [][Next]_vars

-----------------------------------------------------------------------------
(* CivilCodePDFProcessor: parse_articles, _clean_article_content,          *)
(* process_all_pdfs.  A unit is a record of number, title, content and     *)
(* source.  Each Cyrillic letter is one token: "sh" and "zh" are single    *)
(* characters.                                                             *)

RECURSIVE LeadingDigitsOf(_)
\* the digits that s begins with: (\d+) matched at the start of s
LeadingDigitsOf(s) ==
    IF s # <<>> /\ isdigit(Head(s)) THEN <<Head(s)>> \o LeadingDigitsOf(Tail(s)) ELSE <<>>

Least(S) == CHOOSE x \in S : \A y \in S : x <= y

\* the positions at which sub occurs in s
Occurrences(s, sub) ==
    {i \in 1..(Len(s) - Len(sub) + 1) : SubSeq(s, i, i + Len(sub) - 1) = sub}

\* s.find(sub) + 1: the position of the first occurrence, 0 if there is none
Find(s, sub) == IF Occurrences(s, sub) = {} THEN 0 ELSE Least(Occurrences(s, sub))

Glava == <<"G", "l", "a", "v", "a">>

Paragraf == <<"P", "a", "r", "a", "g", "r", "a", "f">>

Razdel == <<"R", "a", "z", "d", "e", "l">>

\* "Имущественный наем"
ImushestvennyjNaem ==
    <<"I", "m", "u", "sh", "e", "s", "t", "v", "e", "n", "n", "y", "j", " ", "n", "a", "e", "m">>

\* "Общие положения"
ObshiePolozhenija ==
    <<"O", "b", "sh", "i", "e", " ", "p", "o", "l", "o", "zh", "e", "n", "i", "a">>

Dogovor == <<"D", "o", "g", "o", "v", "o", "r">>

\* "найма"
Najma == <<"n", "a", "j", "m", "a">>

\* re.sub(keyword + r' \d+.*?$', '', line, flags=IGNORECASE) on one line
CutAtNumbered(line, keyword) ==
    LET key == LowerStr(keyword) \o <<" ">>
        hits == {i \in Occurrences(LowerStr(line), key) :
                    i + Len(key) <= Len(line) /\ isdigit(line[i + Len(key)])}
    IN  IF hits = {} THEN line ELSE SubSeq(line, 1, Least(hits) - 1)

\* re.sub(phrase + r'.*?$', '', line, flags=IGNORECASE) on one line
CutAtPhrase(line, phrase) ==
    LET hits == Occurrences(LowerStr(line), LowerStr(phrase))
    IN  IF hits = {} THEN line ELSE SubSeq(line, 1, Least(hits) - 1)

\* re.sub(first + r'.*?' + second + r'.*?$', '', line, flags=IGNORECASE) on one line
CutAtPair(line, first, second) ==
    LET low == LowerStr(line)
        hits == {i \in Occurrences(low, LowerStr(first)) :
                    \E j \in Occurrences(low, LowerStr(second)) : j >= i + Len(first)}
    IN  IF hits = {} THEN line ELSE SubSeq(line, 1, Least(hits) - 1)

\* the six patterns_to_remove, one after the other, on one line
RemovePatterns(line) ==
    CutAtPair(
        CutAtPhrase(
            CutAtPhrase(
                CutAtNumbered(CutAtNumbered(CutAtNumbered(line, Glava), Paragraf), Razdel),
                ImushestvennyjNaem),
            ObshiePolozhenija),
        Dogovor, Najma)

chapter_boundaries == <<Glava, Paragraf, Razdel, ImushestvennyjNaem, ObshiePolozhenija>>

RECURSIVE CutAtBoundary(_, _)
\* the loop over chapter_boundaries: the first boundary found after the start
\* of the content cuts it
CutAtBoundary(content, boundaries) ==
    IF boundaries = <<>> THEN content
    ELSE IF Find(content, Head(boundaries)) > 1
    THEN strip(SubSeq(content, 1, Find(content, Head(boundaries)) - 1))
    ELSE CutAtBoundary(content, Tail(boundaries))

\* the starts of the matches of r'Статья \d+'
ArticleMatches(content) ==
    {i \in Occurrences(content, Statya \o <<" ">>) :
        i + Len(Statya) + 1 <= Len(content) /\ isdigit(content[i + Len(Statya) + 1])}

\* content cut before the second match of r'Статья \d+', if there is one
CutAtSecondArticle(content) ==
    LET matches == ArticleMatches(content)
    IN  IF Cardinality(matches) > 1
        THEN strip(SubSeq(content, 1, Least(matches \ {Least(matches)}) - 1))
        ELSE content

_clean_article_content(content) ==
    LET lines == SplitOn(content, "\n")
        removed == Join([i \in 1..Len(lines) |-> RemovePatterns(lines[i])], <<"\n">>)
        collapsed == strip(CollapseWhitespace(removed))
    IN  CutAtSecondArticle(CutAtBoundary(collapsed, chapter_boundaries))

\* an article is kept only if its content is longer than this
MinContentLen == 20

RECURSIVE ParseInt(_)
\* int(digits)
ParseInt(digits) ==
    IF digits = <<>> THEN 0
    ELSE 10 * ParseInt(SubSeq(digits, 1, Len(digits) - 1))
         + (CHOOSE d \in 0..9 : DigitChar(d) = digits[Len(digits)])

\* re.match(r'^Статья\s+(\d+)', line, re.IGNORECASE): the digits of group 1,
\* None if the line does not match
article_match(line) ==
    IF startswith(LowerStr(line), LowerStr(Statya))
    THEN LET rest == SubSeq(line, Len(Statya) + 1, Len(line))
             digits == LeadingDigitsOf(lstrip(rest))
         IN  IF rest # lstrip(rest) /\ digits # <<>> THEN Some(digits) ELSE None
    ELSE None

\* "Гражданский кодекс КР, статья "
SourcePrefix == <<"G", "K", " ", "K", "R", ",", " ", "s", "t", "a", "t", "j", "a", " ">>

\* the dictionary appended for an article
Article(number, content) ==
    [number |-> number, title |-> Pattern(number), content |-> content,
     source |-> SourcePrefix \o DecStr(number)]

\* "Save previous article if exists": the articles after the flush at a marker
\* line, the content cleaned by _clean_article_content
FlushCleaned(current_article, current_content, articles) ==
    IF ~IsNone(current_article) /\ current_content # <<>>
    THEN LET content == _clean_article_content(strip(Join(current_content, <<" ">>)))
         IN  IF content # <<>> /\ Len(content) > MinContentLen
             THEN Append(articles, Article(Get(current_article), content))
             ELSE articles
    ELSE articles

\* "Don't forget the last article": the flush after the loop, the content as joined
FlushLast(current_article, current_content, articles) ==
    IF ~IsNone(current_article) /\ current_content # <<>>
    THEN LET content == strip(Join(current_content, <<" ">>))
         IN  IF content # <<>> /\ Len(content) > MinContentLen
             THEN Append(articles, Article(Get(current_article), content))
             ELSE articles
    ELSE articles

RECURSIVE ParseLoop(_, _, _, _)
\* the loop over the lines and the flush after it: articles before the sort
ParseLoop(lines, current_article, current_content, articles) ==
    IF lines = <<>> THEN FlushLast(current_article, current_content, articles)
    ELSE LET line == strip(Head(lines))
         IN  IF line = <<>>
             THEN ParseLoop(Tail(lines), current_article, current_content, articles)
             ELSE IF ~IsNone(article_match(line))
             THEN ParseLoop(Tail(lines), Some(ParseInt(Get(article_match(line)))), <<line>>,
                            FlushCleaned(current_article, current_content, articles))
             ELSE IF ~IsNone(current_article)
             THEN ParseLoop(Tail(lines), current_article, Append(current_content, line),
                            articles)
             ELSE ParseLoop(Tail(lines), current_article, current_content, articles)

RECURSIVE InsertByNumber(_, _)
\* article put into a sorted sequence behind every article whose number is
\* not larger
InsertByNumber(sorted, article) ==
    IF sorted = <<>> THEN <<article>>
    ELSE IF Head(sorted).number <= article.number
    THEN <<Head(sorted)>> \o InsertByNumber(Tail(sorted), article)
    ELSE <<article>> \o sorted

\* the articles left as they were collected: the variant the ordering of C15
\* must tell apart
LeftUnsorted(articles) == articles

RECURSIVE SortByNumber(_)
\* articles.sort(key=lambda x: x['number']): list.sort is stable
SortByNumber(articles) ==
    IF articles = <<>> THEN <<>>
    ELSE InsertByNumber(SortByNumber(SubSeq(articles, 1, Len(articles) - 1)),
                        articles[Len(articles)])

\* the loop started as if an article 0 were open: the variant the treatment
\* of the text before the first marker (C16) must tell apart
ParsedFromArticleZero(text) == ParseLoop(SplitOn(text, "\n"), Some(0), <<>>, <<>>)

\* parse_articles before its sort
ParsedInTextOrder(text) == ParseLoop(SplitOn(text, "\n"), None, <<>>, <<>>)

parse_articles(text) == SortByNumber(ParsedInTextOrder(text))

\* process_pdf_file on a file whose extracted text is text: "" stands for a
\* missing file and for a failed extraction
process_pdf_file(text) == IF text = <<>> THEN <<>> ELSE parse_articles(text)

RECURSIVE ExtendAll(_)
\* all_articles after the loop over pdf_files, before the sort
ExtendAll(texts) ==
    IF texts = <<>> THEN <<>> ELSE process_pdf_file(Head(texts)) \o ExtendAll(Tail(texts))

process_all_pdfs(texts) == SortByNumber(ExtendAll(texts))

\* letter repeated n times
Repeat(letter, n) == [i \in 1..n |-> letter]

\* most lines in a corpus text given to parse_articles
MaxParseLines == 3

\* most files given to process_all_pdfs
MaxPdfFiles == 2

\* "Статья 5 aaaaaaaaaaaaaaaa": marker line with its body
L5 == Pattern(5) \o <<" ">> \o Repeat("a", 16)

\* "статья 5 cccccccccccccccc": the same number again, marker in lower case
L5Again == LowerStr(Pattern(5)) \o <<" ">> \o Repeat("c", 16)

\* "Статья 3 eeeeeeeeeeeeeeee": a smaller number
L3 == Pattern(3) \o <<" ">> \o Repeat("e", 16)

\* "Статья 12": a marker line without a body
L12 == Pattern(12)

\* "  bbbbbbbbbbbbbbbbbbbbbbbb": a body line
LBody == <<" ", " ">> \o Repeat("b", 24)

\* "Glava 2 dddd": a chapter heading
LGlava == Glava \o <<" ", "2", " ">> \o Repeat("d", 4)

\* " ": a blank line
LBlank == <<" ">>

ParseLinePool == {L5, L5Again, L3, L12, LBody, LGlava, LBlank}

ParseTexts == {Join(ls, <<"\n">>) : ls \in SeqsUpTo(ParseLinePool, MaxParseLines)}

\* the extracted texts of the PDF files
PdfTexts ==
    {<<>>, L5, Join(<<L5, L3>>, <<"\n">>), Join(<<L12, LBody, L5Again>>, <<"\n">>)}

ParseInit ==
    /\ corpusChunks = <<>>
    /\ indexFile = None
    /\ chunksFile = None
    /\ builderPc = "idle"
    /\ model = None
    /\ index = None
    /\ chunks = None
    /\ last = NoCall
    /\ handlers = NoHandlers

\* one call of CivilCodePDFProcessor.parse_articles
ParseArticles ==
    /\ last = NoCall
    /\ \E text \in ParseTexts :
          last' = [op |-> "parse_articles", texts |-> <<text>>, raised |-> FALSE,
                   articles |-> parse_articles(text)]
    /\ UNCHANGED <<corpusChunks, indexFile, chunksFile, builderPc, model, index, chunks, handlers>>

\* one call of CivilCodePDFProcessor.process_all_pdfs
ProcessAllPdfs ==
    /\ last = NoCall
    /\ \E texts \in SeqsUpTo(PdfTexts, MaxPdfFiles) :
          last' = [op |-> "process_all_pdfs", texts |-> texts, raised |-> FALSE,
                   articles |-> process_all_pdfs(texts)]
    /\ UNCHANGED <<corpusChunks, indexFile, chunksFile, builderPc, model, index, chunks, handlers>>

ParseNext == ParseArticles \/ ProcessAllPdfs \/ Return

ParseSpec == ParseInit /\ [][ParseNext]_vars

-----------------------------------------------------------------------------
(* The text functions of the build pipeline, each applied to texts drawn   *)
(* from small pools: save_articles_to_file and load_legal_documents.       *)

\* width of the separator line that save_articles_to_file writes
SeparatorWidth == 80

RECURSIVE save_articles_to_file(_)
\* the text of the file that save_articles_to_file writes for articles
save_articles_to_file(articles) ==
    IF articles = <<>> THEN <<>>
    ELSE Pattern(Head(articles).number) \o <<"\n">>
         \o Head(articles).content \o <<"\n", "\n">>
         \o Repeat("=", SeparatorWidth) \o <<"\n", "\n">>
         \o save_articles_to_file(Tail(articles))

\* "chunk_size // 10": the words of one fragment are chunk_size over this
WordsDivisor == 10

\* a fragment is kept only if its text is longer than this
MinFragmentLen == 50

RECURSIVE Fragments(_, _, _)
\* the loop over range(0, len(words), step): the fragment units of one long
\* article, from the words that are left
Fragments(number, words, step) ==
    IF words = <<>> THEN <<>>
    ELSE LET chunk_words == SubSeq(words, 1, IF step < Len(words) THEN step ELSE Len(words))
             chunk_text == Join(chunk_words, <<" ">>)
         IN  (IF Len(chunk_text) > MinFragmentLen
              THEN <<FragmentUnit(number, chunk_text)>> ELSE <<>>)
             \o Fragments(number, SubSeq(words, Len(chunk_words) + 1, Len(words)), step)

RECURSIVE create_article_chunks(_, _)
\* CivilCodePDFProcessor.create_article_chunks(articles, chunk_size)
create_article_chunks(articles, chunk_size) ==
    IF articles = <<>> THEN <<>>
    ELSE LET article == Head(articles)
         IN  (IF Len(article.content) <= chunk_size
              THEN <<Pattern(article.number) \o <<":", " ">> \o article.content>>
              ELSE Fragments(article.number, SplitWords(article.content),
                             chunk_size \div WordsDivisor))
             \o create_article_chunks(Tail(articles), chunk_size)

\* most lines in a text given to load_legal_documents
MaxDocLines == 3

\* most articles given to save_articles_to_file
MaxDocArticles == 2

\* "Статья 1000 aaaaaaaaaaaaaaaa": the marker line of an article with a number
\* of four digits, with its body
L1000 == Pattern(1000) \o <<" ">> \o Repeat("a", 16)

\* marker lines without a body, of a one-digit and of a four-digit number, a
\* marker line with its body, a body line and a blank line
DocLinePool == {Pattern(5), Pattern(1000), L5, LBody, LBlank}

\* articles as parse_articles returns them: the content begins with the marker line
DocArticles == {Article(5, L5), Article(1000, L1000)}

\* the texts load_legal_documents is given: lines of the pool, and files as
\* save_articles_to_file writes them
DocTexts ==
    {Join(ls, <<"\n">>) : ls \in SeqsUpTo(DocLinePool, MaxDocLines)}
    \cup {save_articles_to_file(as) : as \in SeqsUpTo(DocArticles, MaxDocArticles)}

\* one call of FAISSIndexBuilder.load_legal_documents
LoadLegalDocuments ==
    /\ last = NoCall
    /\ \E text \in DocTexts :
          last' = [op |-> "load_legal_documents", text |-> text, raised |-> FALSE,
                   chunks |-> load_legal_documents(text)]
    /\ UNCHANGED <<corpusChunks, indexFile, chunksFile, builderPc, model, index, chunks, handlers>>

\* most articles given to create_article_chunks
MaxChunkArticles == 2

\* the word "wwwwww" followed by the digits of 100 + i: 9 characters
Word(i) == Repeat("w", 6) \o DecStr(100 + i)

\* n different words, one space between them
Words(n) == Join([i \in 1..n |-> Word(i)], <<" ">>)

\* an article of 11 words (109 characters), one of 20 words (199 characters)
\* and a short one
ChunkArticles == {Article(7, Words(11)), Article(9, Words(20)), Article(8, L5)}

\* chunk_size of the call: fragments of 10 and of 15 words
ChunkSizes == {100, 150}

\* one call of CivilCodePDFProcessor.create_article_chunks
CreateArticleChunks ==
    /\ last = NoCall
    /\ \E articles \in SeqsUpTo(ChunkArticles, MaxChunkArticles), chunk_size \in ChunkSizes :
          last' = [op |-> "create_article_chunks", articles |-> articles,
                   chunk_size |-> chunk_size, raised |-> FALSE,
                   chunks |-> create_article_chunks(articles, chunk_size)]
    /\ UNCHANGED <<corpusChunks, indexFile, chunksFile, builderPc, model, index, chunks, handlers>>

\* most sentences in a text given to _clean_article_text
MaxSentences == 3

\* 21 times "a": a sentence just longer than DupMinLen
SLong == Repeat("a", 21)

\* "x aaaaaaaaaaaaaaaaaaaaa": a sentence that contains SLong
SLonger == <<"x", " ">> \o SLong

\* "short", and "a  short=b", which contains it once cleaned
SShort == <<"s", "h", "o", "r", "t">>

SAroundShort == <<"a", " ", " ">> \o SShort \o <<"=", "b">>

\* " short ": SShort again, with blanks around it
SShortAgain == <<" ">> \o SShort \o <<" ">>

SentencePool == {SLong, SLonger, SShort, SAroundShort, SShortAgain}

\* the texts given to _clean_article_text: sentences with periods between them
SentenceTexts == {Join(ss, <<".">>) : ss \in SeqsUpTo(SentencePool, MaxSentences)}

\* one call of LegalBotOrchestrator._clean_article_text
CleanArticleText ==
    /\ last = NoCall
    /\ \E text \in SentenceTexts :
          last' = [op |-> "_clean_article_text", text |-> text, raised |-> FALSE,
                   value |-> _clean_article_text(text)]
    /\ UNCHANGED <<corpusChunks, indexFile, chunksFile, builderPc, model, index, chunks, handlers>>

TextNext == LoadLegalDocuments \/ CreateArticleChunks \/ CleanArticleText \/ Return

TextSpec == ParseInit /\ [][TextNext]_vars

-----------------------------------------------------------------------------
(* The retriever alone, over corpora of up to MaxSearchUnits units and with *)
(* top_k up to MaxSearchTopK, so that the lexical filter of search decides. *)

\* most passages in a corpus text of SearchSpec
MaxSearchUnits == 3

\* largest top_k of a search call of SearchSpec
MaxSearchTopK == 3

\* the fragments contain the word "chast", the unit of article 379 does not
SearchPassagePool == {P379, P37Frag1, P37Frag2}

SearchCorpusTexts ==
    {Join(ps, <<"\n">>) : ps \in SeqsUpTo(SearchPassagePool, MaxSearchUnits)}

SearchInit ==
    /\ corpusChunks \in {load_legal_documents(text) : text \in SearchCorpusTexts}
    /\ indexFile = None
    /\ chunksFile = None
    /\ builderPc = "idle"
    /\ model = None
    /\ index = None
    /\ chunks = None
    /\ last = NoCall
    /\ handlers = NoHandlers

\* one call of LawRetriever.search, top_k up to MaxSearchTopK
SearchWide ==
    /\ last = NoCall
    /\ \E query \in Queries, top_k \in 1..MaxSearchTopK, encodeFails \in BOOLEAN :
         \E order \in CallOrders(encodeFails) :
           \E r \in {search(Retriever, query, top_k, order, encodeFails)} :
              /\ model' = r.model
              /\ index' = r.index
              /\ chunks' = r.chunks
              /\ last' = [op |-> "search", num |-> 0, query |-> query, top_k |-> top_k,
                          raised |-> r.exc # NoException, exc |-> r.exc, value |-> None,
                          unit |-> None, searched |-> TRUE, load |-> r.load,
                          results |-> r.results,
                          knn |-> CallKnn(r, top_k, order)]
              /\ UNCHANGED <<corpusChunks, indexFile, chunksFile, builderPc, handlers>>

SearchNext == SearchWide \/ WriteIndex \/ WriteChunks \/ Return

SearchSpec == SearchInit /\ [][SearchNext]_vars

-----------------------------------------------------------------------------
(* The builder and a loading reader, the corpus file changing between the  *)
(* builds.                                                                 *)

\* most passages in a corpus text of BuildSpec
MaxBuildUnits == 1

\* "Glava 1 Obshie": a chapter heading of more than MinArticleLen characters
PLongHeading == PHeading \o <<" ", "O", "b", "sh", "i", "e">>

BuildPassagePool == {P379, P37Frag1, PLongHeading}

BuildCorpora ==
    {load_legal_documents(Join(ps, <<"\n">>)) : ps \in SeqsUpTo(BuildPassagePool, MaxBuildUnits)}

BuildInit ==
    /\ corpusChunks \in BuildCorpora
    /\ indexFile = None
    /\ chunksFile = None
    /\ builderPc = "idle"
    /\ model = None
    /\ index = None
    /\ chunks = None
    /\ last = NoCall
    /\ handlers = NoHandlers

\* the corpus file is edited between two builds: the next build_and_save
\* reads other units
EditCorpus ==
    /\ builderPc = "idle"
    /\ \E chs \in BuildCorpora : chs # corpusChunks /\ corpusChunks' = chs
    /\ last' = NoCall
    /\ UNCHANGED <<indexFile, chunksFile, builderPc, model, index, chunks, handlers>>

\* what a build_and_save that build_index ended with an exception leaves behind
BuildFailed ==
    [NoCall EXCEPT !.op = "build_and_save", !.raised = TRUE, !.exc = "EmbeddingError"]

\* a build that writes the unit array before it embeds the units: the
\* variant C14 must tell apart
SaveChunksThenFail ==
    /\ builderPc = "idle"
    /\ chunksFile' = Some([chunks |-> corpusChunks])
    /\ last' = BuildFailed
    /\ UNCHANGED <<corpusChunks, indexFile, builderPc, model, index, chunks, handlers>>

\* build_and_save when self.model.encode raises inside build_index: the
\* exception leaves build_and_save before save_index is called
BuildFails ==
    /\ builderPc = "idle"
    /\ last' = BuildFailed
    /\ UNCHANGED <<corpusChunks, indexFile, chunksFile, builderPc, model, index, chunks, handlers>>

BuildNext == EditCorpus \/ BuildFails \/ WriteIndex \/ WriteChunks \/ Load \/ Return

BuildSpec == BuildInit /\ [][BuildNext]_vars

-----------------------------------------------------------------------------
(* The retriever over files of two builds: the corpus grows or shrinks     *)
(* between the builds, and a search can meet the index of one build next   *)
(* to the unit array of the other.                                         *)

\* the units of a corpus of one article and of a corpus of three
RebuildCorpora ==
    {load_legal_documents(Join(ps, <<"\n">>)) : ps \in {<<P379>>, <<P37Frag1, P379, P37Frag2>>}}

RebuildInit ==
    /\ corpusChunks \in RebuildCorpora
    /\ indexFile = None
    /\ chunksFile = None
    /\ builderPc = "idle"
    /\ model = None
    /\ index = None
    /\ chunks = None
    /\ last = NoCall
    /\ handlers = NoHandlers

\* the corpus file is replaced by the other corpus between two builds
ReplaceCorpus ==
    /\ builderPc = "idle"
    /\ \E chs \in RebuildCorpora : chs # corpusChunks /\ corpusChunks' = chs
    /\ last' = NoCall
    /\ UNCHANGED <<indexFile, chunksFile, builderPc, model, index, chunks, handlers>>

\* the index that self.index.search of a search call starting now reads: the
\* loaded one, or the one on disk when the call loads first
IndexSearched ==
    IF IsNone(index) \/ IsNone(chunks) THEN indexFile ELSE index

\* the k-NN orders a search call starting now can meet
OrdersSearched(encodeFails) ==
    IF encodeFails \/ IsNone(IndexSearched) THEN {<<>>} ELSE Orders(Get(IndexSearched).ntotal)

\* one call of LawRetriever.search over whatever the retriever holds or loads
SearchRebuilt ==
    /\ last = NoCall
    /\ \E query \in {QChast, QShort}, top_k \in 1..MaxTopK, encodeFails \in BOOLEAN :
         \E order \in OrdersSearched(encodeFails) :
           \E r \in {search(Retriever, query, top_k, order, encodeFails)} :
              /\ model' = r.model
              /\ index' = r.index
              /\ chunks' = r.chunks
              /\ last' = [op |-> "search", num |-> 0, query |-> query, top_k |-> top_k,
                          raised |-> r.exc # NoException, exc |-> r.exc, value |-> None,
                          unit |-> None, searched |-> TRUE, load |-> r.load,
                          results |-> r.results,
                          knn |-> CallKnn(r, top_k, order)]
              /\ UNCHANGED <<corpusChunks, indexFile, chunksFile, builderPc, handlers>>

RebuildNext ==
    ReplaceCorpus \/ WriteIndex \/ WriteChunks \/ SearchRebuilt \/ Load \/ Restart \/ Return

RebuildSpec == RebuildInit /\ [][RebuildNext]_vars

-----------------------------------------------------------------------------
(* Request handlers in flight together.  The handlers of the bot are       *)
(* coroutines of one event loop and call search and get_article_by_number  *)
(* without awaiting inside them; here a call is cut finer than that, at    *)
(* every place where it reads a field of the retriever, and the cuts of    *)
(* the handlers interleave in every order.  The builder rewrites the files *)
(* on disk meanwhile.                                                      *)

\* the units on disk when the bot starts, and the units the corpus text
\* holds for the next build
ServeCorpora ==
    {load_legal_documents(Join(ps, <<"\n">>)) : ps \in {<<P37Frag1, P379>>, <<P379>>}}

ServeQueries == {QChast, QShort}

ServeArticleNumbers == {37, 99999}

ServeInit ==
    /\ corpusChunks \in ServeCorpora
    /\ \E built \in ServeCorpora :
          /\ indexFile = Some([ntotal |-> Len(built), vectors |-> Embeddings(built)])
          /\ chunksFile = Some([chunks |-> built])
    /\ builderPc = "idle"
    /\ model = None
    /\ index = None
    /\ chunks = None
    /\ last = NoCall
    /\ handlers = NoHandlers

\* a handler's record once "if ... is None: self.load()" has run with outcome r
AfterLoadTest(hr, r) ==
    [hr EXCEPT !.load = IF r.load = "not attempted" THEN @ ELSE r.load]

\* the end of the search call of handler record hr: the result of a direct
\* call, and inside get_article_by_number either the except clause or the
\* loop over the results
EndSearch(hr, exc, results) ==
    IF hr.op = "search" THEN [hr EXCEPT !.pc = "done", !.exc = exc, !.results = results]
    ELSE IF exc # NoException THEN [hr EXCEPT !.pc = "done", !.exc = exc, !.value = None]
    ELSE [hr EXCEPT !.pc = "get: results", !.results = results]

\* a handler calls retriever.search(query, top_k)
BeginSearch ==
    \E h \in Handlers, query \in ServeQueries, top_k \in 1..MaxTopK, encodeFails \in BOOLEAN :
       /\ handlers[h].pc = "idle"
       /\ handlers' = [handlers EXCEPT ![h] =
              [IdleHandler EXCEPT !.pc = "search: load", !.op = "search", !.query = query,
                                  !.top_k = top_k, !.encodeFails = encodeFails,
                                  !.start = Retriever, !.searched = TRUE]]
       /\ UNCHANGED <<corpusChunks, indexFile, chunksFile, builderPc, model, index, chunks, last>>

\* a handler calls get_article_by_number(article_num)
BeginGetArticle ==
    \E h \in Handlers, article_num \in ServeArticleNumbers, encodeFails \in BOOLEAN :
       /\ handlers[h].pc = "idle"
       /\ handlers' = [handlers EXCEPT ![h] =
              [IdleHandler EXCEPT !.pc = "get: load", !.op = "get_article_by_number",
                                  !.num = article_num, !.encodeFails = encodeFails,
                                  !.start = Retriever]]
       /\ UNCHANGED <<corpusChunks, indexFile, chunksFile, builderPc, model, index, chunks, last>>

\* search: "if self.index is None or self.chunks is None: self.load()"
SearchLoadTest ==
    \E h \in Handlers :
       /\ handlers[h].pc = "search: load"
       /\ \E r \in {LazyLoad(Retriever, IsNone(index) \/ IsNone(chunks))} :
             /\ model' = r.model
             /\ index' = r.index
             /\ chunks' = r.chunks
             /\ handlers' = [handlers EXCEPT ![h] =
                    IF r.exc # NoException THEN EndSearch(AfterLoadTest(@, r), r.exc, <<>>)
                    ELSE [AfterLoadTest(@, r) EXCEPT !.pc = "search: knn"]]
       /\ UNCHANGED <<corpusChunks, indexFile, chunksFile, builderPc, last>>

\* search: the query is embedded and self.index.search answers
SearchKnn ==
    \E h \in Handlers :
       /\ handlers[h].pc = "search: knn"
       /\ IF handlers[h].encodeFails
          THEN handlers' = [handlers EXCEPT ![h] = EndSearch(@, "EmbeddingError", <<>>)]
          ELSE \E order \in Orders(Get(index).ntotal) :
                  handlers' = [handlers EXCEPT ![h] =
                      [@ EXCEPT !.pc = "search: filter", !.order = order,
                                !.cands = <<>> \o KnnSearch(Get(index).ntotal, order,
                                                            handlers[h].top_k * OverFetch)]]
       /\ UNCHANGED <<corpusChunks, indexFile, chunksFile, builderPc, model, index, chunks, last>>

\* search: the loops over the candidates read self.chunks
SearchFilter ==
    \E h \in Handlers :
       /\ handlers[h].pc = "search: filter"
       /\ \E g \in {SearchResults(Get(chunks), handlers[h].cands,
                                  QueryWords(handlers[h].query), handlers[h].top_k)} :
             handlers' = [handlers EXCEPT ![h] = EndSearch(@, g.exc, g.results)]
       /\ UNCHANGED <<corpusChunks, indexFile, chunksFile, builderPc, model, index, chunks, last>>

\* get_article_by_number: "if ... self.retriever.chunks is None:
\* self.retriever.load()", an exception going to the except clause
GetLoadTest ==
    \E h \in Handlers :
       /\ handlers[h].pc = "get: load"
       /\ \E r \in {LazyLoad(Retriever, IsNone(chunks))} :
             /\ model' = r.model
             /\ index' = r.index
             /\ chunks' = r.chunks
             /\ handlers' = [handlers EXCEPT ![h] =
                    IF r.exc # NoException
                    THEN [AfterLoadTest(@, r) EXCEPT !.pc = "done", !.exc = r.exc]
                    ELSE [AfterLoadTest(@, r) EXCEPT !.pc = "get: scan"]]
       /\ UNCHANGED <<corpusChunks, indexFile, chunksFile, builderPc, last>>

\* get_article_by_number going to retriever.search whatever the scan of the
\* units collected: the variant the precedence of C20 must tell apart
GetScanThenSearch ==
    \E h \in Handlers :
       /\ handlers[h].pc = "get: scan"
       /\ handlers' = [handlers EXCEPT ![h] =
              [@ EXCEPT !.pc = "search: load", !.query = Pattern(handlers[h].num),
                        !.top_k = FallbackTopK, !.searched = TRUE]]
       /\ UNCHANGED <<corpusChunks, indexFile, chunksFile, builderPc, model, index, chunks, last>>

\* get_article_by_number: the scan of self.retriever.chunks, then either the
\* combined article or the call of retriever.search
GetScan ==
    \E h \in Handlers :
       /\ handlers[h].pc = "get: scan"
       /\ \E article_parts \in {ExactScan(Get(chunks), handlers[h].num)} :
             handlers' = [handlers EXCEPT ![h] =
                 IF article_parts # <<>>
                 THEN [@ EXCEPT !.pc = "done",
                                !.value = CombineAndValidate(LazyLoad(Retriever, FALSE),
                                                             article_parts, handlers[h].num).value]
                 ELSE [@ EXCEPT !.pc = "search: load", !.query = Pattern(handlers[h].num),
                                !.top_k = FallbackTopK, !.searched = TRUE]]
       /\ UNCHANGED <<corpusChunks, indexFile, chunksFile, builderPc, model, index, chunks, last>>

\* get_article_by_number: the loop over the results of the fallback search
GetResults ==
    \E h \in Handlers :
       /\ handlers[h].pc = "get: results"
       /\ handlers' = [handlers EXCEPT ![h] =
              [@ EXCEPT !.pc = "done", !.value = FirstPassing(handlers[h].results, handlers[h].num)]]
       /\ UNCHANGED <<corpusChunks, indexFile, chunksFile, builderPc, model, index, chunks, last>>

\* the handler has sent its reply
HandlerReturn ==
    \E h \in Handlers :
       /\ handlers[h].pc = "done"
       /\ handlers' = [handlers EXCEPT ![h] = IdleHandler]
       /\ UNCHANGED <<corpusChunks, indexFile, chunksFile, builderPc, model, index, chunks, last>>

ServeNext ==
    \/ BeginSearch \/ SearchLoadTest \/ SearchKnn \/ SearchFilter
    \/ BeginGetArticle \/ GetLoadTest \/ GetScan \/ GetResults
    \/ HandlerReturn \/ WriteIndex \/ WriteChunks

ServeSpec == ServeInit /\ [][ServeNext]_vars

-----------------------------------------------------------------------------
(* Vocabulary of the claims.                                               *)

\* a call of get_article_by_number has just finished
GetCall == last.op = "get_article_by_number"

\* that call gave its caller a text
GotText == GetCall /\ ~last.raised /\ ~IsNone(last.value)

ProperPrefix(p, s) == Len(p) < Len(s) /\ SubSeq(s, 1, Len(p)) = p

RECURSIVE LeadingDigits(_)
LeadingDigits(s) ==
    IF s # <<>> /\ isdigit(Head(s)) THEN <<Head(s)>> \o LeadingDigits(Tail(s)) ELSE <<>>

\* the digits of the marker a unit begins with, <<>> if it begins with none
MarkerDigits(unit) ==
    LET u == strip(unit)
        word == Statya \o <<" ">>
    IN  IF startswith(u, word) THEN LeadingDigits(SubSeq(u, Len(word) + 1, Len(u))) ELSE <<>>

\* the ordinals of the units of array chs that pass the exact-prefix guard for n
Passing(chs, n) == {i \in 1..Len(chs) : PassesGuard(strip(chs[i]), n)}

\* the unit is a fragment unit of article n; FragmentBody is its text after the tag
FragmentTag(n) == FragmentUnit(n, <<>>)

IsFragment(unit, n) == startswith(strip(unit), FragmentTag(n))

FragmentBody(unit, n) == SubSeq(strip(unit), Len(FragmentTag(n)) + 1, Len(strip(unit)))

-----------------------------------------------------------------------------
(* C1: for article numbers a # b where the digits of a are a proper prefix *)
(* of the digits of b, get_article_by_number(a) never returns text taken   *)
(* from a unit whose marker is that of b, and get_article_by_number(b)     *)
(* never returns text taken from a unit whose marker is that of a.         *)
C1_NoPrefixCollision ==
    \A a, b \in ArticleNumbers :
        (a # b /\ ProperPrefix(DecStr(a), DecStr(b))) =>
            /\ (GotText /\ last.num = a) => MarkerDigits(Get(last.unit)) # DecStr(b)
            /\ (GotText /\ last.num = b) => MarkerDigits(Get(last.unit)) # DecStr(a)

\* article 37 was returned from an array that holds a unit of article 379 before it
C1_Witness ==
    /\ GotText /\ last.num = 37
    /\ ~IsNone(chunks) /\ Len(Get(chunks)) >= 2
    /\ MarkerDigits(Get(chunks)[1]) = DecStr(379)

(* C2: whenever get_article_by_number(n) returns a text, the text starts   *)
(* with the pattern of n and the character after the pattern, if any, is   *)
(* not a digit.                                                            *)
C2_GuardHoldsAfterCleaning == GotText => PassesGuard(Get(last.value), last.num)

(* C3: if exactly one unit of the array built from the corpus passes the   *)
(* guard for n, get_article_by_number(n) returns exactly the cleaned text  *)
(* of that unit, in every state, whatever rebuilds and restarts preceded.  *)
C3_SingleUnitRoundTrip ==
    (GetCall /\ ~IsNone(chunks) /\ Cardinality(Passing(corpusChunks, last.num)) = 1) =>
        \A i \in Passing(corpusChunks, last.num) :
            /\ ~last.raised
            /\ last.value = Some(_clean_article_text(strip(corpusChunks[i])))

\* the single passing unit stands after another unit, cleaning changes its
\* text, and the cleaned text came back while the artifacts were being written
\* again from the same corpus
C3_Witness ==
    /\ GotText
    /\ Len(corpusChunks) >= 2
    /\ Passing(corpusChunks, last.num) = {2}
    /\ _clean_article_text(corpusChunks[2]) # corpusChunks[2]
    /\ last.value = Some(_clean_article_text(corpusChunks[2]))
    /\ builderPc = "index written"

(* C4: when article n is stored as several fragment units, the text that   *)
(* get_article_by_number(n) returns contains the text of every fragment.   *)
C4_AllFragmentsReturned ==
    (/\ GotText
     /\ ~IsNone(chunks)
     /\ Cardinality(Passing(Get(chunks), last.num)) >= 2
     /\ \A i \in Passing(Get(chunks), last.num) : IsFragment(Get(chunks)[i], last.num))
    => \A i \in Passing(Get(chunks), last.num) :
           Contains(Get(last.value),
                    _clean_article_text(FragmentBody(Get(chunks)[i], last.num)))

(* C5: a second get_article_by_number(n) right after the first, on the     *)
(* unchanged index and unit array, gives the caller the same result as the *)
(* first, also when the first call did the lazy load.                      *)
C5_SecondCallSame ==
    GetCall =>
        \A encodeFails \in BOOLEAN :
            \A order \in CallOrders(encodeFails) :
                \A r \in {get_article_by_number(Retriever, last.num, order, encodeFails)} :
                    r.value = last.value /\ r.raised = last.raised

\* the first call ran the lazy load, the load succeeded and the call returned a text
C5_Witness == GotText /\ last.load = NoException

(* C6: if no unit of the array passes the guard for n, the call returns    *)
(* None: no exception, and no text, not even the empty one.                *)
C6_AbsentIsNone ==
    (GetCall /\ ~IsNone(chunks) /\ Passing(Get(chunks), last.num) = {}) =>
        ~last.raised /\ IsNone(last.value)

\* the fallback search ran to its end over a non-empty array and nothing passed
C6_Witness ==
    /\ GetCall /\ last.searched /\ last.exc = NoException
    /\ ~IsNone(chunks) /\ Len(Get(chunks)) >= 1
    /\ Passing(Get(chunks), last.num) = {}
    /\ IsNone(last.value)

(* C7: get_article_by_number never propagates an exception: whatever is    *)
(* raised while loading, scanning, cleaning or searching, the caller gets  *)
(* None.                                                                   *)
C7_NeverPropagates ==
    GetCall => (~last.raised /\ (last.exc # NoException => IsNone(last.value)))

\* the embedding of the query failed inside the fallback search of the call
C7_Witness == GetCall /\ last.searched /\ last.exc = "EmbeddingError"

(* C8: when the index artifacts are missing at load time, the outcome of   *)
(* get_article_by_number differs from the outcome NotFound (a returned     *)
(* None).                                                                  *)
C8_NotBuiltDistinctFromNotFound ==
    (GetCall /\ last.load = NotBuilt) => ~(~last.raised /\ IsNone(last.value))

(* C9: load, and search through its lazy load, on a retriever whose index  *)
(* artifact is absent raise the "not built" error, return no results and   *)
(* leave index and chunks unset.                                           *)
C9_NotBuiltError ==
    (last.op \in {"load", "search"} /\ IsNone(indexFile)) =>
        /\ last.raised
        /\ last.exc = NotBuilt
        /\ last.results = <<>>
        /\ IsNone(index)
        /\ IsNone(chunks)

\* a search met the absent index file in its lazy load
C9_Witness == last.op = "search" /\ IsNone(indexFile) /\ last.load = NotBuilt

Searched == last.op = "search" /\ ~last.raised

\* score a is at least score b, both fractions with positive denominators
ScoreGeq(a, b) == a.num * b.den >= b.num * a.den

\* the number of query words of the finished call that a unit contains
LexicalCount(chunk) == RelevanceScore(QueryWords(last.query), chunk)

(* C11: within the sequence a search call returns, the scores are          *)
(* non-increasing in sequence order, whatever the lexical match counts of  *)
(* the results.                                                            *)
C11_ScoresNonIncreasing ==
    Searched =>
        \A i, j \in 1..Len(last.results) :
            i < j => ScoreGeq(last.results[i].similarity, last.results[j].similarity)

\* three results came back, and the first has a smaller lexical match count
\* than the last
C11_Witness ==
    /\ Searched
    /\ Len(last.results) = 3
    /\ LexicalCount(last.results[1].chunk) < LexicalCount(last.results[3].chunk)

\* the unit and the score that search makes of the j-th k-NN candidate
CandidateResult(j) ==
    [chunk |-> PyIndex(Get(chunks), last.knn[j].idx),
     similarity |-> Similarity(last.knn[j].distance)]

\* no unit among the k-NN candidates contains a query word
NoCandidateMatches ==
    \A j \in 1..Len(last.knn) : LexicalCount(CandidateResult(j).chunk) = 0

(* C12: for top_k >= 2 and an index of at least two units, the two nearest *)
(* candidates are the first two results whatever their lexical overlap     *)
(* with the query, and they are all the results if no candidate contains   *)
(* a query word.                                                           *)
C12_TwoNearestKept ==
    (Searched /\ last.top_k >= 2 /\ Get(index).ntotal >= 2) =>
        /\ Len(last.results) >= 2
        /\ last.results[1] = CandidateResult(1)
        /\ last.results[2] = CandidateResult(2)
        /\ NoCandidateMatches => Len(last.results) = 2

\* top_k = 3 over three units: the nearest unit lacks the one query word, a
\* farther one contains it, and the nearest is still the first result
C12_Witness ==
    /\ Searched /\ last.top_k = 3 /\ Get(index).ntotal = 3
    /\ QueryWords(last.query) # <<>>
    /\ LexicalCount(CandidateResult(1).chunk) = 0
    /\ LexicalCount(CandidateResult(3).chunk) > 0
    /\ last.results[1] = CandidateResult(1)

(* C13: at every moment of a rebuild, and after a build that stopped       *)
(* half-way, the index file and the unit-array file on disk come from one  *)
(* build, and a reader that loads them holds an index and a unit array of  *)
(* one build.                                                              *)
C13_PairOfOneBuild ==
    /\ (~IsNone(indexFile) /\ ~IsNone(chunksFile)) =>
           Get(indexFile).vectors = Embeddings(Get(chunksFile).chunks)
    /\ (last.op = "load" /\ ~last.raised) =>
           Get(index).vectors = Embeddings(Get(chunks))

(* C14: a build_and_save whose embedding step fails writes or modifies    *)
(* neither the index file nor the unit-array file.                         *)
C14_FailedBuildWritesNothing ==
    [][(last'.op = "build_and_save" /\ last'.raised) =>
           (indexFile' = indexFile /\ chunksFile' = chunksFile)]_vars

\* a build failed over the artifacts of an earlier build of another corpus
C14_Witness ==
    /\ last.op = "build_and_save" /\ last.raised
    /\ ~IsNone(indexFile) /\ ~IsNone(chunksFile)
    /\ Get(chunksFile).chunks # corpusChunks

\* parse_articles or process_all_pdfs has just returned its units
Parsed == last.op \in {"parse_articles", "process_all_pdfs"}

\* the units of the finished call in the order of the corpus: file after file,
\* and inside a file as parse_articles returns them
InCorpusOrder ==
    IF last.op = "parse_articles" THEN ParsedInTextOrder(last.texts[1])
    ELSE ExtendAll(last.texts)

\* the units of number n in seq, in the order of seq
WithNumber(seq, n) == SelectSeq(seq, LAMBDA a : a.number = n)

(* C15: the units that parse_articles and process_all_pdfs return are in   *)
(* ascending order of article number, and the units of one number are in   *)
(* the order in which they appeared in the corpus.                         *)
C15_SortedStable ==
    Parsed =>
        /\ \A i, j \in 1..Len(last.articles) :
               i < j => last.articles[i].number <= last.articles[j].number
        /\ \A i \in 1..Len(last.articles) :
               WithNumber(last.articles, last.articles[i].number)
                   = WithNumber(InCorpusOrder, last.articles[i].number)

\* three units came back, two of one number with different contents, and the
\* corpus had a larger number before a smaller one
C15_Witness ==
    /\ Parsed
    /\ Len(last.articles) = 3
    /\ \E i \in 1..2 : /\ last.articles[i].number = last.articles[i + 1].number
                        /\ last.articles[i].content # last.articles[i + 1].content
    /\ InCorpusOrder # last.articles

\* the positions of the lines of text that match the article marker
MarkerLines(text) ==
    {i \in 1..Len(SplitOn(text, "\n")) : ~IsNone(article_match(strip(SplitOn(text, "\n")[i])))}

\* text from its first marker line on
FromFirstMarker(text) ==
    Join(SubSeq(SplitOn(text, "\n"), Least(MarkerLines(text)), Len(SplitOn(text, "\n"))),
         <<"\n">>)

(* C16: parse_articles raises nothing; on a text that is empty or has no   *)
(* marker line it returns no unit; and the text before the first marker    *)
(* line is part of no unit: the units are those of the text from its first *)
(* marker line on.                                                         *)
C16_NoMarkerNoUnit ==
    last.op = "parse_articles" =>
        /\ ~last.raised
        /\ MarkerLines(last.texts[1]) = {} => last.articles = <<>>
        /\ MarkerLines(last.texts[1]) # {} =>
               last.articles = parse_articles(FromFirstMarker(last.texts[1]))

\* a body line long enough for a unit stands before the first marker line,
\* and the article after it was returned
C16_Witness ==
    /\ last.op = "parse_articles"
    /\ SplitOn(last.texts[1], "\n")[1] = LBody
    /\ MarkerLines(last.texts[1]) # {}
    /\ last.articles # <<>>

(* C17: every unit of the unit array that the builder has written begins,  *)
(* stripped, with an article marker: the marker word, a space and the      *)
(* digits of a number.                                                     *)
C17_PersistedUnitsBeginWithMarker ==
    ~IsNone(chunksFile) =>
        \A i \in 1..Len(Get(chunksFile).chunks) :
            MarkerDigits(Get(chunksFile).chunks[i]) # <<>>

\* both fields of the retriever record st are loaded
Loaded(st) == ~IsNone(st.index) /\ ~IsNone(st.chunks)

\* what the call of handler record hr gives when it runs alone, from the
\* retriever it started on and with the k-NN answer it met
Alone(hr) ==
    IF hr.op = "search"
    THEN search(hr.start, hr.query, hr.top_k, hr.order, hr.encodeFails)
    ELSE get_article_by_number(hr.start, hr.num, hr.order, hr.encodeFails)

\* the finished call of handler record hr gave what it gives alone
AsAlone(hr) ==
    IF hr.op = "search"
    THEN Alone(hr).exc = hr.exc /\ Alone(hr).results = hr.results
    ELSE Alone(hr).value = hr.value

\* C18: a search or get_article_by_number call that starts with the index and
\* the unit array loaded never reloads or modifies them, whatever the other
\* handlers and the builder do meanwhile, and once finished it has given the
\* result it gives when it runs alone.
C18_ConcurrentCallsAsAlone ==
    \A h \in Handlers :
       (handlers[h].pc # "idle" /\ Loaded(handlers[h].start)) =>
          /\ Retriever = handlers[h].start
          /\ handlers[h].load = "not attempted"
          /\ handlers[h].pc = "done" => AsAlone(handlers[h])

\* a lookup that started loaded has finished with an article while a search
\* that started loaded is between its k-NN answer and its reading of the
\* units, and the files on disk are no longer the loaded ones
C18_Witness ==
    /\ handlers["h1"].pc = "done"
    /\ handlers["h1"].op = "get_article_by_number"
    /\ ~IsNone(handlers["h1"].value)
    /\ Loaded(handlers["h1"].start)
    /\ handlers["h2"].pc = "search: filter"
    /\ Loaded(handlers["h2"].start)
    /\ ~IsNone(chunksFile) /\ Get(chunksFile).chunks # Get(chunks)

\* the words of the finished call's query longer than MinWordLen characters
LongQueryWords ==
    {w \in {SplitWords(last.query)[i] : i \in 1..Len(SplitWords(last.query))} :
        Len(w) > MinWordLen}

\* the lower-cased unit contains a lower-cased long query word
ContainsLongQueryWord(chunk) ==
    \E w \in LongQueryWords : Contains(LowerStr(chunk), LowerStr(w))

\* C19: every result of search at position 3 or later contains, lower-cased,
\* a lower-cased query word longer than 3 characters; a query without such a
\* word yields at most 2 results whatever top_k is.
C19_LateResultsContainQueryWord ==
    Searched =>
        /\ \A i \in 3..Len(last.results) : ContainsLongQueryWord(last.results[i].chunk)
        /\ LongQueryWords = {} => Len(last.results) <= 2

\* three results came back, and the third is not the third nearest
\* candidate, which contains no query word and was passed over
C19_Witness ==
    /\ Searched /\ last.top_k = 3 /\ Len(last.results) = 3
    /\ ~ContainsLongQueryWord(CandidateResult(3).chunk)
    /\ last.results[3] # CandidateResult(3)
    /\ ContainsLongQueryWord(last.results[3].chunk)

\* handler h is serving a get_article_by_number call
Getting(h) == handlers[h].pc # "idle" /\ handlers[h].op = "get_article_by_number"

\* the call of handler h is past its scan of the unit array
PastScan(h) == Getting(h) /\ handlers[h].pc \notin {"get: load", "get: scan"}

\* C20: within one get_article_by_number call, retriever.search is called
\* only when the scan of the whole unit array collected no unit; when the
\* scan collects a unit the call ends without any search call.
C20_SearchOnlyAfterEmptyScan ==
    \A h \in Handlers :
       /\ (Getting(h) /\ handlers[h].searched) =>
              /\ PastScan(h)
              /\ ~IsNone(chunks)
              /\ Passing(Get(chunks), handlers[h].num) = {}
       /\ (PastScan(h) /\ ~IsNone(chunks) /\ Passing(Get(chunks), handlers[h].num) # {}) =>
              /\ handlers[h].pc = "done"
              /\ ~handlers[h].searched
              /\ handlers[h].cands = <<>>

\* over the same units one lookup has ended with the article its scan
\* collected, without a search, and another, whose scan collected nothing,
\* has ended after its search
C20_Witness ==
    /\ handlers["h1"].pc = "done" /\ Getting("h1")
    /\ ~handlers["h1"].searched /\ ~IsNone(handlers["h1"].value)
    /\ handlers["h2"].pc = "done" /\ Getting("h2")
    /\ handlers["h2"].searched /\ handlers["h2"].cands # <<>>
    /\ handlers["h1"].start = handlers["h2"].start

\* the finished call was a lookup over a loaded unit array in which a unit
\* passes the guard for the number asked for
ScanCollected ==
    GetCall /\ ~IsNone(chunks) /\ Passing(Get(chunks), last.num) # {}

\* the first unit in array order that passes the guard for the number asked for
FirstPassingUnit == Get(chunks)[Least(Passing(Get(chunks), last.num))]

\* C21: when units pass the exact-prefix guard for n, the result of
\* get_article_by_number(n) is the cleaned text of the first of them in array
\* order, whatever the later passing units are.
C21_FirstPassingUnitDecides ==
    ScanCollected => last.value = Some(_clean_article_text(strip(FirstPassingUnit)))

\* two different units pass the guard and a text came back
C21_Witness ==
    /\ ScanCollected /\ GotText
    /\ \E i, j \in Passing(Get(chunks), last.num) :
          i < j /\ _clean_article_text(strip(Get(chunks)[i]))
                     # _clean_article_text(strip(Get(chunks)[j]))

\* the filtering loop of the finished search accepted no candidate
FilterAcceptedNone ==
    /\ Searched
    /\ FilterLoop(last.knn, 1, <<>>, Get(chunks), QueryWords(last.query), last.top_k).results
          = <<>>

\* C22: when the filtering loop of search accepts no candidate, the call
\* returns the 2 nearest k-NN candidates, cut to top_k, with the scores of
\* their distances, and not an empty result.
C22_FallbackReturnsNearest ==
    FilterAcceptedNone =>
        /\ Len(last.results) = (IF last.top_k < MinKeep THEN last.top_k ELSE MinKeep)
        /\ \A j \in 1..Len(last.results) :
              last.results[j].similarity = Similarity(last.knn[j].distance)

\* a load has just succeeded while no build was between its two writes
LoadedAfterBuild == last.op = "load" /\ ~last.raised /\ builderPc = "idle"

\* C23: after a build_and_save that ran to its end and a load that follows
\* it, the index holds as many vectors as the unit array holds units, and
\* vector i is the embedding of unit i for every ordinal i.
C23_OrdinalAlignment ==
    LoadedAfterBuild =>
        /\ Get(index).ntotal = Len(Get(chunks))
        /\ Len(Get(index).vectors) = Len(Get(chunks))
        /\ \A i \in 1..Len(Get(chunks)) : Get(index).vectors[i] = Embed(Get(chunks)[i])

\* the load followed a build of the corpus of three units, of which the first
\* and the last differ
C23_Witness ==
    /\ LoadedAfterBuild
    /\ Len(Get(chunks)) = 3
    /\ Get(chunks)[1] # Get(chunks)[3]
    /\ corpusChunks = Get(chunks)

\* C24: after any sequence of load attempts, successful or failing, the
\* retriever holds either both the index and the unit array or neither.
C24_BothOrNeither == IsNone(index) <=> IsNone(chunks)

\* the unit is a marker line and nothing else: the marker word, a space and
\* the digits of a number
MarkerOnly(unit) ==
    /\ Len(unit) > Len(Statya) + 1
    /\ startswith(unit, Statya \o <<" ">>)
    /\ \A i \in (Len(Statya) + 2)..Len(unit) : isdigit(unit[i])

\* C25: load_legal_documents keeps a unit only if its stripped text is longer
\* than the minimum length, and no unit it returns is a marker line
\* 'Статья N' without a body, whatever the number N.
C25_MarkerOnlyUnitDiscarded ==
    last.op = "load_legal_documents" =>
        \A i \in 1..Len(last.chunks) :
            /\ Len(last.chunks[i]) > MinArticleLen
            /\ ~MarkerOnly(last.chunks[i])

\* a structural heading keyword occurs in the content after its start
HeadingInside(content) ==
    \E b \in 1..Len(chapter_boundaries) :
        \E i \in Occurrences(content, chapter_boundaries[b]) : i > 1

\* C26: every unit that parse_articles returns, whatever its position in the
\* corpus, has at most one article marker 'Статья <digits>' in its content
\* and no structural heading keyword after the start of its content.
C26_EveryUnitCleaned ==
    (last.op = "parse_articles") =>
        \A i \in 1..Len(last.articles) :
            /\ Cardinality(ArticleMatches(last.articles[i].content)) <= 1
            /\ ~HeadingInside(last.articles[i].content)

RECURSIVE FragmentWords(_, _)
\* the words of the fragment units of article n among units, in the order of
\* the units
FragmentWords(units, n) ==
    IF units = <<>> THEN <<>>
    ELSE (IF IsFragment(Head(units), n) THEN SplitWords(FragmentBody(Head(units), n))
          ELSE <<>>)
         \o FragmentWords(Tail(units), n)

\* article k of the finished create_article_chunks call is longer than the
\* chunk size, and no other article of the call has its number
LongArticle(k) ==
    /\ Len(last.articles[k].content) > last.chunk_size
    /\ \A j \in 1..Len(last.articles) :
          last.articles[j].number = last.articles[k].number => j = k

\* C27: for an article whose content is longer than the chunk size, the
\* fragment units that create_article_chunks emits with its number hold, one
\* after the other, every word of the content once and in the original order.
C27_FragmentsHoldEveryWord ==
    last.op = "create_article_chunks" =>
        \A k \in 1..Len(last.articles) :
            LongArticle(k) =>
                FragmentWords(last.chunks, last.articles[k].number)
                    = SplitWords(last.articles[k].content)

\* the sentences of a text: its pieces between periods, stripped, the empty
\* ones left out
Sentences(text) ==
    SelectSeq([i \in 1..Len(SplitOn(text, ".")) |-> strip(SplitOn(text, ".")[i])],
              LAMBDA piece : piece # <<>>)

\* the sentences of the text the finished _clean_article_text call returned
KeptSentences == Sentences(last.value)

\* the sentences of the text the call was given, separators, runs of
\* whitespace and bullets removed
GivenSentences == Sentences(RemoveBullets(CollapseWhitespace(RemoveSeparators(last.text))))

RECURSIVE IsSubsequence(_, _)
\* sub is seq with some of its entries left out
IsSubsequence(sub, seq) ==
    IF sub = <<>> THEN TRUE
    ELSE IF seq = <<>> THEN FALSE
    ELSE IF Head(sub) = Head(seq) THEN IsSubsequence(Tail(sub), Tail(seq))
    ELSE IsSubsequence(sub, Tail(seq))

\* C28: the sentences of the text that _clean_article_text returns are in
\* their original relative order, no sentence occurs twice, and no kept
\* sentence longer than 20 characters is a substring of another kept one.
C28_KeptSentencesUnique ==
    last.op = "_clean_article_text" =>
        /\ IsSubsequence(KeptSentences, GivenSentences)
        /\ \A i, j \in 1..Len(KeptSentences) :
              i # j =>
                 /\ KeptSentences[i] # KeptSentences[j]
                 /\ Len(KeptSentences[i]) > DupMinLen
                       => ~Contains(KeptSentences[j], KeptSentences[i])

\* of three sentences two were kept: the one left out is longer than 20
\* characters and contains a sentence kept before it
C28_Witness ==
    /\ last.op = "_clean_article_text"
    /\ Len(GivenSentences) = 3 /\ Len(KeptSentences) = 2
    /\ \E i \in 2..3 :
          /\ \A j \in 1..2 : KeptSentences[j] # GivenSentences[i]
          /\ Len(GivenSentences[1]) > DupMinLen
          /\ GivenSentences[1] = KeptSentences[1]
          /\ Contains(GivenSentences[i], GivenSentences[1])

\* the k-NN candidates of the finished search that are real neighbours: their
\* ordinal is one of the index and not the padding ordinal -1
RealNeighbours ==
    {j \in 1..Len(last.knn) : 0 <= last.knn[j].idx /\ last.knn[j].idx < Get(index).ntotal}

\* C29: every pair that search returns is the unit and the score of a real
\* neighbour of the k-NN answer, and no neighbour gives more than one result,
\* also when the index holds fewer than 2 * top_k vectors.
C29_ResultsAreRealNeighbours ==
    Searched =>
        \E from \in [1..Len(last.results) -> RealNeighbours] :
            /\ \A i \in 1..Len(last.results) : last.results[i] = CandidateResult(from[i])
            /\ \A i, j \in 1..Len(last.results) : i # j => from[i] # from[j]

\* the finished call was a lookup and the retriever holds both the index and
\* the unit array
LookupOverLoaded == GetCall /\ ~IsNone(index) /\ ~IsNone(chunks)

\* C30: with the index and the unit array loaded, get_article_by_number(n)
\* returns a text if and only if a unit of the array passes the exact-prefix
\* guard for n: the fallback search finds nothing when the scan collected
\* nothing, and the validation after cleaning rejects no collected unit.
C30_TextIffUnitPasses ==
    LookupOverLoaded =>
        (~IsNone(last.value) <=> Passing(Get(chunks), last.num) # {})

\* a text came back that cleaning has changed: it is not the stripped unit
\* that the scan collected first
C30_Witness ==
    /\ LookupOverLoaded /\ GotText
    /\ Passing(Get(chunks), last.num) # {}
    /\ last.value # Some(strip(FirstPassingUnit))
    /\ ~last.searched

=============================================================================
